---- MODULE Spec2Model ----
(***************************************************************************)
(* Model of exercises/conversions/from_str.rs: `impl FromStr for Person`,  *)
(* the error type PersonStrParseError with its Display and Error impls.    *)
(*                                                                         *)
(* A string is a sequence of one-character strings.  The state machine is  *)
(* a caller that holds one input, calls from_str on it (possibly again),   *)
(* renders a returned error with Display and walks its source() chain.     *)
(***************************************************************************)
EXTENDS Integers, Sequences, FiniteSets, TLC

VARIABLES input, pc, result, prev, calls, msg, cur, steps

vars == <<input, pc, result, prev, calls, msg, cur, steps>>

(***************************************************************************)
(* Bounds                                                                  *)
(***************************************************************************)
\* width of usize on the modelled target (16 is Rust's smallest pointer width)
USIZE_BITS == 16
\* longest input enumerated exhaustively over Alphabet
MaxLen == 5
\* how many times the caller parses the same input
MaxCalls == 2
\* how many source() links the caller follows
MaxChain == 2

USIZE_MAX == 2^USIZE_BITS - 1

(***************************************************************************)
(* Characters and strings                                                  *)
(***************************************************************************)
Digits == {"0", "1", "2", "3", "4", "5", "6", "7", "8", "9"}

\* char::to_digit(10) on an ASCII digit
to_digit(c) ==
    CASE c = "0" -> 0 [] c = "1" -> 1 [] c = "2" -> 2 [] c = "3" -> 3
      [] c = "4" -> 4 [] c = "5" -> 5 [] c = "6" -> 6 [] c = "7" -> 7
      [] c = "8" -> 8 [] c = "9" -> 9

\* inverse of to_digit, used by the decimal formatter
from_digit(d) ==
    CASE d = 0 -> "0" [] d = 1 -> "1" [] d = 2 -> "2" [] d = 3 -> "3"
      [] d = 4 -> "4" [] d = 5 -> "5" [] d = 6 -> "6" [] d = 7 -> "7"
      [] d = 8 -> "8" [] d = 9 -> "9"

\* the characters the exhaustive enumeration draws from: a letter, the
\* separator, two digits, a sign and a blank
Alphabet == {"J", ",", "0", "7", "+", " "}

RECURSIVE StringsOfLen(_)
StringsOfLen(n) ==
    IF n = 0 THEN {<<>>}
    ELSE {Append(s, c) : s \in StringsOfLen(n - 1), c \in Alphabet}

AllStrings == UNION {StringsOfLen(n) : n \in 0..MaxLen}

\* usize's Display: the canonical decimal text of n (no sign, no leading zero)
RECURSIVE to_string(_)
to_string(n) ==
    IF n < 10 THEN <<from_digit(n)>>
    ELSE Append(to_string(n \div 10), from_digit(n % 10))

(***************************************************************************)
(* Values                                                                  *)
(***************************************************************************)
NoCause == "None"

\* std::num::ParseIntError { kind }
ParseIntError(k) == [kind |-> "ParseIntError", cause |-> k]

\* enum PersonStrParseError
EmptyString == [kind |-> "EmptyString", cause |-> NoCause]
InsufficientParams == [kind |-> "InsufficientParams", cause |-> NoCause]
ParseNumError(e) == [kind |-> "ParseNumError", cause |-> e.cause]

\* Option::None for an error reference
NoError == [kind |-> "None", cause |-> NoCause]

\* Result<Person, Box<dyn Error>>, plus the two non-values a call can leave
Ok(n, a) == [tag |-> "Ok", name |-> n, age |-> a, err |-> NoError]
Err(e) == [tag |-> "Err", name |-> <<>>, age |-> 0, err |-> e]
Panic == [tag |-> "Panic", name |-> <<>>, age |-> 0, err |-> NoError]
NotCalled == [tag |-> "NotCalled", name |-> <<>>, age |-> 0, err |-> NoError]

NoMsg == "<none>"

(***************************************************************************)
(* str::split(",")                                                         *)
(***************************************************************************)
\* index of the first occurrence of pat in s, 0 when there is none
find(s, pat) ==
    IF \E i \in 1..Len(s) : s[i] = pat
    THEN CHOOSE i \in 1..Len(s) : s[i] = pat /\ \A j \in 1..(i - 1) : s[j] # pat
    ELSE 0

\* variant: str::split_inclusive, every field keeps its terminating separator
RECURSIVE split_inclusive(_, _)
split_inclusive(s, pat) ==
    LET i == find(s, pat) IN
    IF i = 0 THEN <<s>>
    ELSE <<SubSeq(s, 1, i)>> \o split_inclusive(SubSeq(s, i + 1, Len(s)), pat)

\* s.split(pat).collect::<Vec<&str>>(): the fields between the separators,
\* empty fields included, always at least one field
RECURSIVE split(_, _)
split(s, pat) ==
    LET i == find(s, pat) IN
    IF i = 0 THEN <<s>>
    ELSE <<SubSeq(s, 1, i - 1)>> \o split(SubSeq(s, i + 1, Len(s)), pat)

(***************************************************************************)
(* str::parse::<usize>()                                                   *)
(***************************************************************************)
IntOk(v) == [ok |-> TRUE, val |-> v, kind |-> NoCause]
IntErr(k) == [ok |-> FALSE, val |-> 0, kind |-> k]

\* the digit loop of from_str_radix: checked multiply, digit test, checked add
RECURSIVE from_str_radix_loop(_, _, _)
from_str_radix_loop(digits, i, acc) ==
    IF i > Len(digits) THEN IntOk(acc)
    ELSE IF digits[i] \notin Digits THEN IntErr("InvalidDigit")
    ELSE IF acc * 10 > USIZE_MAX THEN IntErr("PosOverflow")
    ELSE IF acc * 10 + to_digit(digits[i]) > USIZE_MAX THEN IntErr("PosOverflow")
    ELSE from_str_radix_loop(digits, i + 1, acc * 10 + to_digit(digits[i]))

\* variant: wrapping arithmetic instead of checked arithmetic
RECURSIVE wrapping_loop(_, _, _)
wrapping_loop(digits, i, acc) ==
    IF i > Len(digits) THEN IntOk(acc)
    ELSE IF digits[i] \notin Digits THEN IntErr("InvalidDigit")
    ELSE wrapping_loop(digits, i + 1,
                       (acc * 10 + to_digit(digits[i])) % (USIZE_MAX + 1))

\* variant of parse_usize built on wrapping_loop
parse_usize_wrapping(src) ==
    IF Len(src) = 0 THEN IntErr("Empty")
    ELSE IF src = <<"+">> \/ src = <<"-">> THEN IntErr("InvalidDigit")
    ELSE IF src[1] = "+" THEN wrapping_loop(Tail(src), 1, 0)
    ELSE wrapping_loop(src, 1, 0)

\* usize::from_str: empty text, a lone sign, an optional '+', then the digits;
\* '-' is not a sign for an unsigned type and fails as a digit
parse_usize(src) ==
    IF Len(src) = 0 THEN IntErr("Empty")
    ELSE IF src = <<"+">> \/ src = <<"-">> THEN IntErr("InvalidDigit")
    ELSE IF src[1] = "+" THEN from_str_radix_loop(Tail(src), 1, 0)
    ELSE from_str_radix_loop(src, 1, 0)

(***************************************************************************)
(* impl FromStr for Person                                                 *)
(***************************************************************************)
\* 0-based bounds test of Vec indexing; a failed test is a panic
InBounds(v, i) == i < Len(v)
At(v, i) == v[i + 1]

\* variant: the whole-input length test is missing
from_str_no_len_check(s) ==
    LET params == split(s, ",") IN
    IF Len(params) # 2 THEN Err(InsufficientParams)
    ELSE IF Len(At(params, 0)) = 0 THEN Err(EmptyString)
    ELSE LET ageResult == parse_usize(At(params, 1)) IN
         IF ~ageResult.ok THEN Err(ParseNumError(ParseIntError(ageResult.kind)))
         ELSE Ok(At(params, 0), ageResult.val)

\* variant: the field count test is `< 2`
from_str_count_lt(s) ==
    IF Len(s) = 0 THEN Err(EmptyString)
    ELSE LET params == split(s, ",") IN
         IF Len(params) < 2 THEN Err(InsufficientParams)
         ELSE IF Len(At(params, 0)) = 0 THEN Err(EmptyString)
         ELSE LET ageResult == parse_usize(At(params, 1)) IN
              IF ~ageResult.ok
              THEN Err(ParseNumError(ParseIntError(ageResult.kind)))
              ELSE Ok(At(params, 0), ageResult.val)

\* variant: the field count test is missing
from_str_no_count(s) ==
    IF Len(s) = 0 THEN Err(EmptyString)
    ELSE LET params == split(s, ",") IN
         IF ~InBounds(params, 0) THEN Panic
         ELSE IF Len(At(params, 0)) = 0 THEN Err(EmptyString)
         ELSE IF ~InBounds(params, 1) THEN Panic
         ELSE LET ageResult == parse_usize(At(params, 1)) IN
              IF ~ageResult.ok
              THEN Err(ParseNumError(ParseIntError(ageResult.kind)))
              ELSE Ok(At(params, 0), ageResult.val)

\* variant: the age is parsed before the name is tested
from_str_age_first(s) ==
    IF Len(s) = 0 THEN Err(EmptyString)
    ELSE LET params == split(s, ",") IN
         IF Len(params) # 2 THEN Err(InsufficientParams)
         ELSE LET ageResult == parse_usize(At(params, 1)) IN
              IF ~ageResult.ok
              THEN Err(ParseNumError(ParseIntError(ageResult.kind)))
              ELSE IF Len(At(params, 0)) = 0 THEN Err(EmptyString)
              ELSE Ok(At(params, 0), ageResult.val)

\* variant: a failed age parse falls back to age 0
from_str_default_age(s) ==
    IF Len(s) = 0 THEN Err(EmptyString)
    ELSE LET params == split(s, ",") IN
         IF Len(params) # 2 THEN Err(InsufficientParams)
         ELSE IF Len(At(params, 0)) = 0 THEN Err(EmptyString)
         ELSE LET ageResult == parse_usize(At(params, 1)) IN
              IF ~ageResult.ok THEN Ok(At(params, 0), 0)
              ELSE Ok(At(params, 0), ageResult.val)

\* variant: the name field is not tested
from_str_no_name_check(s) ==
    IF Len(s) = 0 THEN Err(EmptyString)
    ELSE LET params == split(s, ",") IN
         IF Len(params) # 2 THEN Err(InsufficientParams)
         ELSE LET ageResult == parse_usize(At(params, 1)) IN
              IF ~ageResult.ok
              THEN Err(ParseNumError(ParseIntError(ageResult.kind)))
              ELSE Ok(At(params, 0), ageResult.val)

\* Person::from_str
from_str(s) ==
    IF Len(s) = 0 THEN Err(EmptyString)
    ELSE LET params == split(s, ",") IN
         IF Len(params) # 2 THEN Err(InsufficientParams)
         ELSE IF ~InBounds(params, 0) THEN Panic
         ELSE IF Len(At(params, 0)) = 0 THEN Err(EmptyString)
         ELSE IF ~InBounds(params, 1) THEN Panic
         ELSE LET ageResult == parse_usize(At(params, 1)) IN
              IF ~ageResult.ok
              THEN Err(ParseNumError(ParseIntError(ageResult.kind)))
              ELSE Ok(At(params, 0), ageResult.val)

(***************************************************************************)
(* impl Display / impl Error for PersonStrParseError                       *)
(***************************************************************************)
\* variant: the first two messages are exchanged
fmt_swapped(e) ==
    CASE e.kind = "EmptyString" -> "Should exist 2 params"
      [] e.kind = "InsufficientParams" -> "Empty input string"
      [] e.kind = "ParseNumError" -> "Oh no"

\* PersonStrParseError::fmt
fmt(e) ==
    CASE e.kind = "EmptyString" -> "Empty input string"
      [] e.kind = "InsufficientParams" -> "Should exist 2 params"
      [] e.kind = "ParseNumError" -> "Oh no"

\* Error::source: PersonStrParseError returns Some(self) for every variant;
\* ParseIntError keeps the trait's default, None
source(e) ==
    IF e.kind \in {"EmptyString", "InsufficientParams", "ParseNumError"} THEN e
    ELSE NoError

(***************************************************************************)
(* Inputs                                                                  *)
(***************************************************************************)
\* the literals of main and of the tests
GoodInput == <<"J", "o", "h", "n", ",", "3", "2">>
MissingAge == <<"J", "o", "h", "n", ",">>
InvalidAgeInput == <<"J", "o", "h", "n", ",", "t", "w", "e", "n", "t", "y">>
MissingCommaAndAge == <<"J", "o", "h", "n">>
MissingName == <<",", "1">>
MissingNameAndAge == <<",">>
MissingNameAndInvalidAge == <<",", "o", "n", "e">>
TrailingComma == <<"J", "o", "h", "n", ",", "3", "2", ",">>
TrailingCommaAndSomeString == <<"J", "o", "h", "n", ",", "3", "2", ",", "m", "a", "n">>
MainInput == <<"M", "a", "r", "k", ",", "2", "0">>

TestInputs ==
    {<<>>, GoodInput, MissingAge, InvalidAgeInput, MissingCommaAndAge,
     MissingName, MissingNameAndAge, MissingNameAndInvalidAge, TrailingComma,
     TrailingCommaAndSomeString, MainInput}

\* ages at and around the top of usize, and the small ages of the tests
BoundaryAges == {0, 20, 32, USIZE_MAX - 1, USIZE_MAX, USIZE_MAX + 1, 10 * USIZE_MAX}

\* an age text as a caller may write it: canonical, signed, zero-padded,
\* padded with blanks, followed by a letter
Decorated(t) ==
    {t, <<"+">> \o t, <<"-">> \o t, <<"0">> \o t, <<" ">> \o t, t \o <<" ">>,
     t \o <<"x">>}

BoundaryNames == {<<>>, <<"J">>, <<"J", ",", "J">>}

BoundaryInputs ==
    {n \o <<",">> \o d : n \in BoundaryNames,
                         d \in UNION {Decorated(to_string(a)) : a \in BoundaryAges}}

Inputs == AllStrings \cup TestInputs \cup BoundaryInputs

(***************************************************************************)
(* The caller                                                              *)
(***************************************************************************)
Init ==
    /\ input \in Inputs
    /\ pc = "start"
    /\ result = NotCalled
    /\ prev = NotCalled
    /\ calls = 0
    /\ msg = NoMsg
    /\ cur = NoError
    /\ steps = 0

\* s.parse::<Person>(): one call of from_str on the held input
Parse ==
    /\ pc \in {"start", "returned"}
    /\ calls < MaxCalls
    /\ prev' = result
    /\ result' = from_str(input)
    /\ calls' = calls + 1
    /\ pc' = IF result'.tag = "Panic" THEN "panicked" ELSE "returned"
    /\ UNCHANGED <<input, msg, cur, steps>>

\* format!("{}", e) on the returned error
Display ==
    /\ pc = "returned"
    /\ result.tag = "Err"
    /\ msg = NoMsg
    /\ msg' = fmt(result.err)
    /\ UNCHANGED <<input, pc, result, prev, calls, cur, steps>>

\* one more link of the cause chain: e.source(), then source() of that, ...
FollowSource ==
    /\ pc = "returned"
    /\ result.tag = "Err"
    /\ steps < MaxChain
    /\ steps > 0 => cur # NoError
    /\ cur' = source(IF steps = 0 THEN result.err ELSE cur)
    /\ steps' = steps + 1
    /\ UNCHANGED <<input, pc, result, prev, calls, msg>>

Next == Parse \/ Display \/ FollowSource

Spec == Init /\ [][Next]_vars

(***************************************************************************)
(* Vocabulary of the properties, stated on the input text itself           *)
(***************************************************************************)
Commas(s) == {i \in 1..Len(s) : s[i] = ","}
CommaCount(s) == Cardinality(Commas(s))

\* the text before and after the separator at position k
Before(s, k) == SubSeq(s, 1, k - 1)
After(s, k) == SubSeq(s, k + 1, Len(s))

\* position of the only separator of an input that has exactly one
OnlyComma(s) == CHOOSE k \in Commas(s) : TRUE

AllDigits(t) == Len(t) > 0 /\ \A i \in 1..Len(t) : t[i] \in Digits

\* the number a digit string denotes, as an unbounded integer
RECURSIVE DecimalValue(_)
DecimalValue(t) ==
    IF Len(t) = 0 THEN 0
    ELSE 10 * DecimalValue(SubSeq(t, 1, Len(t) - 1)) + to_digit(t[Len(t)])

Unsigned(t) == IF Len(t) > 0 /\ t[1] = "+" THEN Tail(t) ELSE t

\* an unsigned integer literal that fits usize: an optional '+', then one or
\* more decimal digits whose value is at most usize::MAX
ValidLiteral(t) == AllDigits(Unsigned(t)) /\ DecimalValue(Unsigned(t)) <= USIZE_MAX
LiteralValue(t) == DecimalValue(Unsigned(t))

\* the text is exactly what formatting some age in 0..usize::MAX produces
IsAgeText(t) ==
    /\ AllDigits(t)
    /\ DecimalValue(t) <= USIZE_MAX
    /\ to_string(DecimalValue(t)) = t

Returned == pc = "returned"
Failed(kind) == result.tag = "Err" /\ result.err.kind = kind

(***************************************************************************)
(* Properties                                                              *)
(***************************************************************************)
\* C1 (as stated): for every non-empty name and every age in 0..usize::MAX,
\* parsing name + "," + age_as_text returns Ok with exactly that name and age.
C1_RoundTripAnyName ==
    Returned =>
        \A k \in Commas(input) :
            (k > 1 /\ IsAgeText(After(input, k)))
                => result = Ok(Before(input, k), DecimalValue(After(input, k)))

\* C1 (amended): the same for every non-empty name that contains no ','.
C1_RoundTrip ==
    Returned =>
        \A k \in Commas(input) :
            (/\ k > 1
             /\ \A j \in 1..(k - 1) : input[j] # ","
             /\ IsAgeText(After(input, k)))
                => result = Ok(Before(input, k), DecimalValue(After(input, k)))

C1_Witness ==
    /\ Returned
    /\ input = <<"J", ",">> \o to_string(USIZE_MAX)
    /\ result = Ok(<<"J">>, USIZE_MAX)

\* C2: a non-empty input with no ',' or with two or more ',' fails with
\* InsufficientParams, whatever its fields contain.
C2_WrongFieldCount ==
    (Returned /\ Len(input) > 0 /\ CommaCount(input) # 1)
        => result = Err(InsufficientParams)

C2_Witness ==
    /\ Returned
    /\ input = <<",", "J", ",">>
    /\ result = Err(InsufficientParams)

\* C3: an input with exactly one ',' and nothing before it fails with
\* EmptyString, whatever follows the ','; it never fails with ParseNumError.
C3_EmptyNameFirst ==
    (Returned /\ CommaCount(input) = 1 /\ input[1] = ",")
        => result = Err(EmptyString) /\ ~Failed("ParseNumError")

C3_Witness ==
    /\ Returned
    /\ input = MissingNameAndInvalidAge
    /\ result = Err(EmptyString)

\* C4: an input with exactly one ',', text before it and, after it, text that
\* is not an unsigned integer literal fitting usize (empty, not numeric,
\* padded with blanks, too large) fails with ParseNumError; no Person is
\* returned.
C4_InvalidAge ==
    (/\ Returned
     /\ CommaCount(input) = 1
     /\ input[1] # ","
     /\ ~ValidLiteral(After(input, OnlyComma(input))))
        => Failed("ParseNumError") /\ result.name = <<>> /\ result.age = 0

C4_Witness ==
    /\ Returned
    /\ input = <<"J", ",">> \o to_string(USIZE_MAX + 1)
    /\ result = Err(ParseNumError(ParseIntError("PosOverflow")))

\* C5: the zero-length input fails with EmptyString, never with
\* InsufficientParams or ParseNumError.
C5_EmptyInput ==
    (Returned /\ Len(input) = 0)
        => /\ result = Err(EmptyString)
           /\ ~Failed("InsufficientParams")
           /\ ~Failed("ParseNumError")

C5_Witness ==
    /\ Returned
    /\ input = <<>>
    /\ result.tag = "Err"

\* C6: every returned Person has a non-empty name and an age in
\* 0..usize::MAX that is the value the age text denotes, not a wrapped or
\* truncated one.
C6_RecordInvariant ==
    result.tag = "Ok"
        => /\ Len(result.name) > 0
           /\ result.age \in 0..USIZE_MAX
           /\ \E k \in Commas(input) : result.age = LiteralValue(After(input, k))

C6_Witness ==
    /\ result.tag = "Ok"
    /\ result.age = USIZE_MAX
    /\ Len(result.name) > 0

\* C7: source() of a ParseNumError is the wrapped ParseIntError, and a link
\* of the cause chain is never the error it was taken from, so the chain ends.
C7_SourceExposesCause ==
    steps = 1
        => /\ cur # result.err
           /\ Failed("ParseNumError") => cur = ParseIntError(result.err.cause)

\* C8: EmptyString renders as "Empty input string", InsufficientParams as
\* "Should exist 2 params", ParseNumError as "Oh no" whatever it wraps; the
\* three messages differ from each other.
C8_Messages ==
    msg # NoMsg
        => /\ Failed("EmptyString") => msg = "Empty input string"
           /\ Failed("InsufficientParams") => msg = "Should exist 2 params"
           /\ Failed("ParseNumError") => msg = "Oh no"
           /\ \A other \in {EmptyString, InsufficientParams,
                            ParseNumError(ParseIntError("InvalidDigit"))} :
                  other.kind # result.err.kind => fmt(other) # msg

C8_Witness ==
    /\ msg = "Oh no"
    /\ result = Err(ParseNumError(ParseIntError("Empty")))

C10_SuccessIff ==
    Returned =>
        LET wellFormed == /\ CommaCount(input) = 1
                          /\ input[1] # ","
                          /\ ValidLiteral(After(input, OnlyComma(input)))
        IN /\ result.tag = "Ok" <=> wellFormed
           /\ result.tag = "Ok"
                => /\ result.name = Before(input, OnlyComma(input))
                   /\ \A i \in 1..Len(result.name) : result.name[i] # ","
                   /\ result.age = LiteralValue(After(input, OnlyComma(input)))

C10_Witness ==
    /\ Returned
    /\ input = <<"J", ",", "+", "0", "7">>
    /\ result = Ok(<<"J">>, 7)

====
